---- MODULE Spec2Model ----
(***************************************************************************)
(* Model of the Repository of js-ceramic                                   *)
(* (packages/core/src/state-management/repository.ts): the tiered load     *)
(* (memory, state store, network), the two per-stream execution queues,    *)
(* the endured in-memory cache behind updates$, and the pin policy.        *)
(*                                                                         *)
(* Repository is modelled from its source.  StateCache, ExecutionQueue,    *)
(* RunningState, StateManager and PinStore are not part of the source      *)
(* under study; they are modelled from their contracts in the              *)
(* specification (sections 4.1 - 4.4 and 6.1).                             *)
(***************************************************************************)
EXTENDS Integers, Sequences, FiniteSets

\* ---------------------------------------------------------------- bounds
\* RunningState objects constructed in one run.
MaxInst == 3
\* API calls and subscriptions issued in one run.
MaxOps == 3

\* -------------------------------------------------- program parameters
\* cacheLimit: maximum number of evictable entries of the in-memory cache.
cacheLimit == 1
\* concurrencyLimit: maximum number of concurrently running queue lanes.
concurrencyLimit == 2

\* The streams, the concurrent callers of the Repository API and the
\* updates$ subscribers.
Streams == {1, 2}
Calls == {1, 2}
Subs == {1, 2}

\* SyncOptions
PREFER_CACHE == "PREFER_CACHE"
SYNC_ALWAYS == "SYNC_ALWAYS"
NEVER_SYNC == "NEVER_SYNC"
SYNC_ON_ERROR == "SYNC_ON_ERROR"
SyncOptions == {PREFER_CACHE, SYNC_ALWAYS, NEVER_SYNC, SYNC_ON_ERROR}

\* OperationType
CREATE == "CREATE"
UPDATE == "UPDATE"
LOAD == "LOAD"

\* opts.pin: undefined, true or false
PinOpts == {"undefined", "true", "false"}

\* The genesis commit of every stream; other commits are numbered from 1.
Genesis == 0
\* A commit known to the network only (another node's update).
RemoteCommit == 9
\* Metadata models; shouldIndexStream holds for the indexed ones.
Models == {"none", "indexed", "other"}

VARIABLES
  rs,          \* the RunningState objects constructed so far
  inmemory,    \* Repository.inmemory, the StateCache
  store,       \* pinStore.stateStore: stream -> persisted log, <<>> if absent
  synced,      \* StateManager's pinned-and-synced bookkeeping
  loadingQ,    \* Repository.loadingQ: stream -> FIFO of calls
  executionQ,  \* Repository.executionQ: stream -> FIFO of calls
  pc,          \* where each call is suspended
  call,        \* arguments and locals of each call
  sub,         \* the updates$ subscriptions
  nOps,        \* calls and subscriptions issued
  applied,     \* <<stream, commit, state>> of the applyCommit calls that returned
  warned,      \* console.warn calls of handlePinOpts
  published,   \* stateManager.publishTip calls
  errors,      \* errors raised by unpin to its callers
  net,         \* stream -> the log the network holds
  model,       \* stream -> metadata.model
  closed,      \* what close() has torn down so far, in order
  anchorRequestStore, \* stream -> cid of the persisted anchor request, 0 if none
  queueLimit,  \* the concurrency limit the two ExecutionQueues were built with
  streamSync   \* the streams for which the STREAM_SYNC metric was counted

vars == <<rs, inmemory, store, synced, loadingQ, executionQ, pc, call, sub,
          nOps, applied, warned, published, errors, net, model, closed,
                    anchorRequestStore, queueLimit,
                    streamSync>>

\* ------------------------------------------------------------- sequences
Range(f) == {f[i] : i \in DOMAIN f}

Without(q, k) == SelectSeq(q, LAMBDA x : x # k)

IsPrefix(a, b) == Len(a) <= Len(b) /\ SubSeq(b, 1, Len(a)) = a

Tip(log) == log[Len(log)]

\* ------------------------------------------------------------ StateCache
\* A bounded LRU of evictable entries plus an endured set with a refcount
\* per key.  val[k] = 0: no entry.  lru lists the evictable keys, least
\* recently used first.
EmptyCache ==
  [val |-> [k \in Streams |-> 0], ref |-> [k \in Streams |-> 0], lru |-> <<>>]

\* get(k): the entry of k, 0 if none.
CacheGet(c, k) == c.val[k]

\* A get of an evictable entry makes it the most recently used.
CacheTouch(c, k) ==
  IF c.val[k] # 0 /\ c.ref[k] = 0
    THEN [c EXCEPT !.lru = Append(Without(@, k), k)]
    ELSE c

\* The keys that set(k, v) evicts: the least recently used evictable
\* entries in excess of cacheLimit after the insertion.
CacheOverflow(c, k) ==
  IF c.ref[k] > 0
    THEN {}
    ELSE LET lru1 == Append(Without(c.lru, k), k)
         IN {lru1[i] : i \in 1 .. (Len(lru1) - cacheLimit)}

\* set(k, v): an endured key keeps its status and refreshes its value; an
\* evictable key becomes the most recently used, and the overflow is evicted.
CacheSet(c, k, v) ==
  IF c.ref[k] > 0
    THEN [c EXCEPT !.val[k] = v]
    ELSE LET out == CacheOverflow(c, k)
         IN [val |-> [x \in Streams |->
                        IF x \in out THEN 0 ELSE IF x = k THEN v ELSE c.val[x]],
             ref |-> c.ref,
             lru |-> SelectSeq(Append(Without(c.lru, k), k),
                               LAMBDA x : x \notin out)]

\* endure(k, v): moves k into the endured set, refcount++ on repeated calls.
CacheEndure(c, k, v) ==
  [val |-> [c.val EXCEPT ![k] = v],
   ref |-> [c.ref EXCEPT ![k] = @ + 1],
   lru |-> Without(c.lru, k)]

\* free(k): endured refcount--; on zero the entry becomes evictable.
CacheFree(c, k) ==
  IF c.ref[k] = 0
    THEN c
    ELSE IF c.ref[k] = 1
      THEN [c EXCEPT !.ref[k] = 0, !.lru = Append(Without(@, k), k)]
      ELSE [c EXCEPT !.ref[k] = @ - 1]

\* ---------------------------------------------------------- RunningState
\* new RunningState(state, pinned)
NewRunningState(s, log, pinned) ==
  [id |-> s, log |-> log, isPinned |-> pinned, complete |-> FALSE,
   observers |-> {}, emits |-> <<>>, anchor |-> 0]

\* next(newState): replaces the state and emits it; a no-op once complete,
\* and an emission equal to the current state is rejected.
RsNext(r, log) ==
  IF r.complete \/ r.log = log
    THEN r
    ELSE [r EXCEPT !.log = log, !.emits = Append(@, Tip(log))]

\* complete(): terminal; the observers are notified and dropped.
RsComplete(r) == [r EXCEPT !.complete = TRUE, !.observers = {}]

\* ---------------------------------------------------------- StateManager
\* ConflictResolution.resolve(current, candidate): a log that extends the
\* other wins; of two diverging logs the longer wins, and equal lengths are
\* decided by comparing the tips.
Resolve(a, b) ==
  IF IsPrefix(a, b) THEN b
  ELSE IF IsPrefix(b, a) THEN a
  ELSE IF Len(a) # Len(b) THEN (IF Len(a) > Len(b) THEN a ELSE b)
  ELSE IF Tip(a) <= Tip(b) THEN a ELSE b

\* sync(state$, timeout, hintTip): the log after the network tip, and the
\* hint if one is given, went through conflict resolution.
SyncLog(log, netlog, hintlog) ==
  LET l1 == Resolve(log, netlog)
  IN IF hintlog = <<>> THEN l1 ELSE Resolve(l1, hintlog)

\* wasPinnedStreamSynced(streamId)
wasPinnedStreamSynced(s) == s \in synced

\* ------------------------------------------------------------ Repository
\* shouldIndex(state$, index)
shouldIndex(r) ==
  IF model[r.id] = "none" THEN FALSE ELSE model[r.id] = "indexed"

\* The eviction callback given to StateCache: completes the evicted states.
onEvicted(rsv, out) ==
  [i \in DOMAIN rsv |-> IF i \in out THEN RsComplete(rsv[i]) ELSE rsv[i]]

\* The subscribers of a completed RunningState are closed by its complete().
Notified(subv, out) ==
  [u \in Subs |->
     IF subv[u].st = "active" /\ subv[u].r \in out
       THEN [subv[u] EXCEPT !.st = "completed"]
       ELSE subv[u]]

\* fromStreamStateStore: new RunningState(streamState, true); the anchor
\* service is asked to confirm the cid of a persisted anchor request, which
\* is read in the same step.
Rehydrated(s) ==
  [NewRunningState(s, store[s], TRUE) EXCEPT !.anchor = anchorRequestStore[s]]

\* The instances that add(state$) evicts.
Evictees(c, k) == {c.val[x] : x \in CacheOverflow(c, k)}

\* new RunningState(...) followed by add(state$): the new object list and the
\* cache.  The evicted keys are evictable, so the free() that the teardown of
\* a dropped subscriber issues finds their refcount at zero and changes
\* nothing.
add(rsv, c, r) ==
  LET rs1 == Append(rsv, r)
  IN [rs |-> onEvicted(rs1, Evictees(c, r.id)),
      cache |-> CacheSet(c, r.id, Len(rs1)),
      out |-> Evictees(c, r.id)]

NoCall ==
  [op |-> "none", s |-> 0, sync |-> "none", pin |-> "undefined", pub |-> FALSE,
   tk |-> 0, st |-> 0, syn |-> FALSE, hint |-> 0, nb |-> FALSE, mb |-> FALSE,
   opType |-> "none", seen |-> {}, after |-> {}, res |-> "none",
   pinned |-> FALSE, hl |-> <<>>, skip |-> FALSE, tier |-> "none",
   stored |-> FALSE]

NoSub == [st |-> "idle", s |-> 0, r |-> 0]

\* Whether close() has reached the collaborator x.
Closed(x) == x \in Range(closed)

\* close() reaches the collaborator x.
Mark(x) == IF Closed(x) THEN closed ELSE Append(closed, x)

\* ExecutionQueue: a lane runs the task at its head; at most
\* concurrencyLimit lanes of one queue run at a time.
Running(q, waiting) ==
  Cardinality({k \in Streams : q[k] # <<>> /\ pc[Head(q[k])] # waiting})

CanStart(q, waiting, p, k) ==
  /\ pc[p] = waiting
  /\ q[k] # <<>>
  /\ Head(q[k]) = p
  /\ Running(q, waiting) < queueLimit

InitCalls ==
  /\ rs = <<>>
  /\ inmemory = EmptyCache
  /\ synced = {}
  /\ loadingQ = [s \in Streams |-> <<>>]
  /\ executionQ = [s \in Streams |-> <<>>]
  /\ pc = [p \in Calls |-> "idle"]
  /\ call = [p \in Calls |-> NoCall]
  /\ sub = [u \in Subs |-> NoSub]
  /\ nOps = 0
  /\ applied = {}
  /\ warned = 0
  /\ published = 0
  /\ errors = 0
  /\ closed = <<>>
  /\ streamSync = {}

\* The Repository constructed with concurrencyLimit.
InitRun ==
  /\ InitCalls
  /\ queueLimit = concurrencyLimit

\* A node without persisted anchor requests.
InitProcess ==
  /\ InitRun
  /\ anchorRequestStore = [s \in Streams |-> 0]

\* A node that starts with an empty state store.
InitState ==
  /\ InitProcess
  /\ store = [s \in Streams |-> <<>>]

\* The network holds the genesis commit of every stream and possibly a later
\* commit of another node; every stream has its metadata.
Init ==
  /\ InitState
  /\ net \in [Streams -> {<<Genesis>>, <<Genesis, RemoteCommit>>}]
  /\ model \in [Streams -> Models]

\* The applyCommit calls on stream s that returned: <<commit, state>>.
AppliedTo(s) == {<<a[2], a[3]>> : a \in {x \in applied : x[1] = s}}

\* The loadingQ task returns [state$, synced] and leaves the queue.
LoadReturn(p, r, syn, tier) ==
  /\ loadingQ' = [loadingQ EXCEPT ![call[p].s] = Tail(@)]
  /\ pc' = [pc EXCEPT ![p] = "load_post"]
  /\ call' = [call EXCEPT ![p].st = r, ![p].syn = syn, ![p].tier = tier]

\* Whether the stream of running state r is pinned: the state store holds it
\* and the running state is marked.
IsPinned(rsv, storev, r) == rsv[r].isPinned /\ storev[rsv[r].id] # <<>>

\* A call returns or raises; its record keeps the outcome and whether the
\* stream was pinned at that moment.
Return(p, res, rsv, storev) ==
  /\ pc' = [pc EXCEPT ![p] = "done"]
  /\ call' = [call EXCEPT ![p].res = res,
                ![p].pinned = IsPinned(rsv, storev, call[p].st)]
  /\ applied' = IF call[p].op = "applyCommit" /\ res = "ok"
                  THEN applied \cup {<<call[p].s, call[p].tk, call[p].st>>}
                  ELSE applied

\* A commit whose capability has expired without a covering anchor.
ExpiredCommit == 7

\* StreamUtils.checkForCacaoExpiration(state) raises.
CacaoExpired(r) == ExpiredCommit \in Range(r.log)

\* C14, mutant: load that checks the capabilities only of a state that did
\* not come from the in-memory cache.
LoadPost_NoCheckOnMemoryHit(p) ==
  LET r == call[p].st
  IN /\ pc[p] = "load_post"
     /\ IF ~call[p].skip /\ CacaoExpired(rs[r]) /\ call[p].tier # "memory"
          THEN /\ Return(p, "CapabilityExpired", rs, store)
               /\ executionQ' = [executionQ EXCEPT ![call[p].s] = Without(@, p)]
               /\ UNCHANGED synced
          ELSE /\ synced' = IF call[p].syn /\ rs[r].isPinned
                              THEN synced \cup {rs[r].id} ELSE synced
               /\ IF call[p].op = "load"
                    THEN Return(p, "ok", rs, store)
                    ELSE /\ IF call[p].op = "applyCommit"
                              THEN /\ pc' = [pc EXCEPT ![p] = "apply_wait"]
                                   /\ UNCHANGED call
                              ELSE /\ pc' = [pc EXCEPT ![p] =
                                        IF call[p].op = "loadAtCommit"
                                          THEN "at_wait" ELSE "opts_wait"]
                                   /\ call' = [call EXCEPT ![p].opType =
                                        IF Len(rs[r].log) = 1 THEN CREATE
                                        ELSE LOAD]
                         /\ UNCHANGED applied
               /\ UNCHANGED executionQ
     /\ UNCHANGED <<rs, inmemory, store, loadingQ, sub, nOps, warned,
                    published, errors, net, model, closed,
                    anchorRequestStore, queueLimit,
                    streamSync>>

\* C23, mutant: applyCreateOpts that takes every load for a create.
LoadPost_AlwaysCreate(p) ==
  LET r == call[p].st
  IN /\ pc[p] = "load_post"
     /\ IF ~call[p].skip /\ CacaoExpired(rs[r])
          THEN /\ Return(p, "CapabilityExpired", rs, store)
               /\ executionQ' = [executionQ EXCEPT ![call[p].s] = Without(@, p)]
               /\ UNCHANGED synced
          ELSE /\ synced' = IF call[p].syn /\ rs[r].isPinned
                              THEN synced \cup {rs[r].id} ELSE synced
               /\ IF call[p].op = "load"
                    THEN Return(p, "ok", rs, store)
                    ELSE /\ IF call[p].op = "applyCommit"
                              THEN /\ pc' = [pc EXCEPT ![p] = "apply_wait"]
                                   /\ UNCHANGED call
                              ELSE /\ pc' = [pc EXCEPT ![p] =
                                        IF call[p].op = "loadAtCommit"
                                          THEN "at_wait" ELSE "opts_wait"]
                                   /\ call' = [call EXCEPT ![p].opType =
                                        CREATE]
                         /\ UNCHANGED applied
               /\ UNCHANGED executionQ
     /\ UNCHANGED <<rs, inmemory, store, loadingQ, sub, nOps, warned,
                    published, errors, net, model, closed,
                    anchorRequestStore, queueLimit,
                    streamSync>>

\* load, after the loadingQ task (lines 279-287): unless the checks are
\* skipped a state with an expired capability raises; a synced pinned state is
\* marked pinned-and-synced and load returns; then the caller of load goes on.
LoadPost(p) ==
  LET r == call[p].st
  IN /\ pc[p] = "load_post"
     /\ IF ~call[p].skip /\ CacaoExpired(rs[r])
          THEN /\ Return(p, "CapabilityExpired", rs, store)
               /\ executionQ' = [executionQ EXCEPT ![call[p].s] = Without(@, p)]
               /\ UNCHANGED synced
          ELSE /\ synced' = IF call[p].syn /\ rs[r].isPinned
                              THEN synced \cup {rs[r].id} ELSE synced
               /\ IF call[p].op = "load"
                    THEN Return(p, "ok", rs, store)
                    ELSE /\ IF call[p].op = "applyCommit"
                              THEN /\ pc' = [pc EXCEPT ![p] = "apply_wait"]
                                   /\ UNCHANGED call
                              ELSE /\ pc' = [pc EXCEPT ![p] =
                                        IF call[p].op = "loadAtCommit"
                                          THEN "at_wait" ELSE "opts_wait"]
                                   /\ call' = [call EXCEPT ![p].opType =
                                        IF Len(rs[r].log) = 1 THEN CREATE
                                        ELSE LOAD]
                         /\ UNCHANGED applied
               /\ UNCHANGED executionQ
     /\ UNCHANGED <<rs, inmemory, store, loadingQ, sub, nOps, warned,
                    published, errors, net, model, closed,
                    anchorRequestStore, queueLimit,
                    streamSync>>

\* load(streamId, opts) is called: the task is queued on loadingQ.
LoadCalled(p, s, mode, skip) ==
  /\ pc[p] \in {"idle", "done"}
  /\ nOps < MaxOps
  /\ ~Closed("loadingQ")
  /\ nOps' = nOps + 1
  /\ call' = [call EXCEPT ![p] = [NoCall EXCEPT !.op = "load", !.s = s,
                !.sync = mode, !.seen = AppliedTo(s), !.skip = skip]]
  /\ loadingQ' = [loadingQ EXCEPT ![s] = Append(@, p)]
  /\ pc' = [pc EXCEPT ![p] = "lq_wait"]
  /\ UNCHANGED <<rs, inmemory, store, synced, executionQ, sub, applied,
                 warned, published, errors, net, model, closed,
                    anchorRequestStore, queueLimit,
                    streamSync>>

\* load(streamId, {sync: mode})
StartLoad(p, s, mode) == LoadCalled(p, s, mode, FALSE)

\* load(streamId, {sync: mode, skipCacaoExpirationChecks: true})
StartLoadSkip(p, s, mode) == LoadCalled(p, s, mode, TRUE)

\* C5, mutant: a loadingQ task that never looks into the memory cache.
LoadTask_NoMemoryProbe(p) ==
  LET s == call[p].s
  IN /\ CanStart(loadingQ, "lq_wait", p, s)
     /\ IF call[p].sync = SYNC_ALWAYS
          THEN /\ pc' = [pc EXCEPT ![p] = "sa_wait"]
               /\ call' = [call EXCEPT ![p].hint = 0, ![p].mb = FALSE,
                             ![p].nb = FALSE]
          ELSE /\ pc' = [pc EXCEPT ![p] = "store_wait"]
               /\ UNCHANGED call
     /\ UNCHANGED <<rs, inmemory, store, synced, loadingQ, executionQ, sub,
                    nOps, applied, warned, published, errors, net, model, closed,
                    anchorRequestStore, queueLimit,
                    streamSync>>

\* C22, mutant: a loadingQ task that starts only once no executionQ task of
\* another call holds the stream.
LoadTask_AfterExecutionQ(p) ==
  LET s == call[p].s
      m == CacheGet(inmemory, s)
  IN /\ CanStart(loadingQ, "lq_wait", p, s)
     /\ IF executionQ[s] = <<>> THEN TRUE ELSE Head(executionQ[s]) = p
     /\ inmemory' = CacheTouch(inmemory, s)
     /\ IF call[p].sync = SYNC_ALWAYS
          THEN /\ pc' = [pc EXCEPT ![p] = "sa_wait"]
               /\ call' = [call EXCEPT ![p].hint = m, ![p].mb = (m # 0),
                             ![p].nb = FALSE]
               /\ UNCHANGED loadingQ
          ELSE IF m # 0
            THEN LoadReturn(p, m, TRUE, "memory")
            ELSE /\ pc' = [pc EXCEPT ![p] = "store_wait"]
                 /\ UNCHANGED <<call, loadingQ>>
     /\ UNCHANGED <<rs, store, synced, executionQ, sub, nOps, applied, warned,
                    published, errors, net, model, closed,
                    anchorRequestStore, queueLimit,
                    streamSync>>

\* The loadingQ task starts: _loadGenesis probes the memory cache, or, for
\* SYNC_ALWAYS, fromNetwork and fromMemoryOrStore are both started.
LoadTask(p) ==
  LET s == call[p].s
      m == CacheGet(inmemory, s)
  IN /\ CanStart(loadingQ, "lq_wait", p, s)
     /\ inmemory' = CacheTouch(inmemory, s)
     /\ IF call[p].sync = SYNC_ALWAYS
          THEN /\ pc' = [pc EXCEPT ![p] = "sa_wait"]
               /\ call' = [call EXCEPT ![p].hint = m, ![p].mb = (m # 0),
                             ![p].nb = FALSE]
               /\ UNCHANGED loadingQ
          ELSE IF m # 0
            THEN LoadReturn(p, m, TRUE, "memory")
            ELSE /\ pc' = [pc EXCEPT ![p] = "store_wait"]
                 /\ UNCHANGED <<call, loadingQ>>
     /\ UNCHANGED <<rs, store, synced, executionQ, sub, nOps, applied, warned,
                    published, errors, net, model, closed,
                    anchorRequestStore, queueLimit,
                    streamSync>>

\* C17, mutant: fromStreamStateStore that builds the running state unpinned.
LoadFromStore_Unpinned(p) ==
  LET s == call[p].s
      a == add(rs, inmemory, NewRunningState(s, store[s], FALSE))
      r == Len(rs) + 1
  IN /\ pc[p] = "store_wait"
     /\ IF store[s] # <<>>
          THEN /\ Len(rs) < MaxInst
               /\ rs' = a.rs
               /\ inmemory' = a.cache
               /\ sub' = Notified(sub, a.out)
               /\ IF wasPinnedStreamSynced(s) \/ call[p].sync = NEVER_SYNC
                    THEN LoadReturn(p, r, wasPinnedStreamSynced(s), "store")
                    ELSE /\ pc' = [pc EXCEPT ![p] = "sync_wait"]
                         /\ call' = [call EXCEPT ![p].st = r,
                                                 ![p].tier = "store"]
                         /\ UNCHANGED loadingQ
          ELSE /\ pc' = [pc EXCEPT ![p] = "net_wait"]
               /\ UNCHANGED <<rs, inmemory, sub, call, loadingQ>>
     /\ UNCHANGED <<store, synced, executionQ, nOps, applied, warned,
                    published, errors, net, model, closed,
                    anchorRequestStore, queueLimit,
                    streamSync>>

\* C18, mutant: a load that syncs a stored stream whether or not it was
\* synced before.
LoadFromStore_AlwaysSync(p) ==
  LET s == call[p].s
      a == add(rs, inmemory, Rehydrated(s))
      r == Len(rs) + 1
  IN /\ pc[p] = "store_wait"
     /\ IF store[s] # <<>>
          THEN /\ Len(rs) < MaxInst
               /\ rs' = a.rs
               /\ inmemory' = a.cache
               /\ sub' = Notified(sub, a.out)
               /\ IF call[p].sync = NEVER_SYNC
                    THEN LoadReturn(p, r, wasPinnedStreamSynced(s), "store")
                    ELSE /\ pc' = [pc EXCEPT ![p] = "sync_wait"]
                         /\ call' = [call EXCEPT ![p].st = r,
                                                 ![p].tier = "store"]
                         /\ UNCHANGED loadingQ
          ELSE /\ pc' = [pc EXCEPT ![p] = "net_wait"]
               /\ UNCHANGED <<rs, inmemory, sub, call, loadingQ>>
     /\ UNCHANGED <<store, synced, executionQ, nOps, applied, warned,
                    published, errors, net, model, closed,
                    anchorRequestStore, queueLimit,
                    streamSync>>

\* _loadGenesis, fromStreamStateStore resolved.
LoadFromStore(p) ==
  LET s == call[p].s
      a == add(rs, inmemory, Rehydrated(s))
      r == Len(rs) + 1
  IN /\ pc[p] = "store_wait"
     /\ IF store[s] # <<>>
          THEN /\ Len(rs) < MaxInst
               /\ rs' = a.rs
               /\ inmemory' = a.cache
               /\ sub' = Notified(sub, a.out)
               /\ IF wasPinnedStreamSynced(s) \/ call[p].sync = NEVER_SYNC
                    THEN LoadReturn(p, r, wasPinnedStreamSynced(s), "store")
                    ELSE /\ pc' = [pc EXCEPT ![p] = "sync_wait"]
                         /\ call' = [call EXCEPT ![p].st = r,
                                                 ![p].tier = "store"]
                         /\ UNCHANGED loadingQ
          ELSE /\ pc' = [pc EXCEPT ![p] = "net_wait"]
               /\ UNCHANGED <<rs, inmemory, sub, call, loadingQ>>
     /\ UNCHANGED <<store, synced, executionQ, nOps, applied, warned,
                    published, errors, net, model, closed,
                    anchorRequestStore, queueLimit,
                    streamSync>>

\* _loadGenesis, fromNetwork resolved.
LoadFromNetwork(p) ==
  LET s == call[p].s
      a == add(rs, inmemory, NewRunningState(s, <<Genesis>>, FALSE))
      r == Len(rs) + 1
  IN /\ pc[p] = "net_wait"
     /\ net[s] # <<>>
     /\ Len(rs) < MaxInst
     /\ rs' = a.rs
     /\ inmemory' = a.cache
     /\ sub' = Notified(sub, a.out)
     /\ IF call[p].sync = NEVER_SYNC
          THEN LoadReturn(p, r, FALSE, "network")
          ELSE /\ pc' = [pc EXCEPT ![p] = "sync_wait"]
               /\ call' = [call EXCEPT ![p].st = r, ![p].tier = "network"]
               /\ UNCHANGED loadingQ
     /\ UNCHANGED <<store, synced, executionQ, nOps, applied, warned,
                    published, errors, net, model, closed,
                    anchorRequestStore, queueLimit,
                    streamSync>>

\* SYNC_ALWAYS: the fromNetwork branch of Promise.all resolved.
SyncAlwaysNetwork(p) ==
  LET s == call[p].s
      a == add(rs, inmemory, NewRunningState(s, <<Genesis>>, FALSE))
      r == Len(rs) + 1
  IN /\ pc[p] = "sa_wait"
     /\ ~call[p].nb
     /\ net[s] # <<>>
     /\ Len(rs) < MaxInst
     /\ rs' = a.rs
     /\ inmemory' = a.cache
     /\ sub' = Notified(sub, a.out)
     /\ call' = [call EXCEPT ![p].st = r, ![p].nb = TRUE,
                   ![p].tier = "network",
                   ![p].hl = IF call[p].mb /\ call[p].hint # 0
                               THEN a.rs[call[p].hint].log ELSE <<>>]
     /\ pc' = [pc EXCEPT ![p] = IF call[p].mb THEN "sync_wait" ELSE "sa_wait"]
     /\ UNCHANGED <<store, synced, loadingQ, executionQ, nOps, applied, warned,
                    published, errors, net, model, closed,
                    anchorRequestStore, queueLimit,
                    streamSync>>

\* SYNC_ALWAYS: the fromMemoryOrStore branch of Promise.all resolved after a
\* memory miss.
SyncAlwaysStore(p) ==
  LET s == call[p].s
      a == add(rs, inmemory, Rehydrated(s))
      r == Len(rs) + 1
  IN /\ pc[p] = "sa_wait"
     /\ ~call[p].mb
     /\ IF store[s] # <<>>
          THEN /\ Len(rs) < MaxInst
               /\ rs' = a.rs
               /\ inmemory' = a.cache
               /\ sub' = Notified(sub, a.out)
               /\ call' = [call EXCEPT ![p].hint = r, ![p].mb = TRUE,
                             ![p].stored = TRUE,
                             ![p].hl = IF call[p].nb THEN store[s] ELSE <<>>]
          ELSE /\ call' = [call EXCEPT ![p].hint = 0, ![p].mb = TRUE]
               /\ UNCHANGED <<rs, inmemory, sub>>
     /\ pc' = [pc EXCEPT ![p] = IF call[p].nb THEN "sync_wait" ELSE "sa_wait"]
     /\ UNCHANGED <<store, synced, loadingQ, executionQ, nOps, applied, warned,
                    published, errors, net, model, closed,
                    anchorRequestStore, queueLimit,
                    streamSync>>

\* The error of a load whose genesis commit the dispatcher does not return.
StreamNotFound == "StreamNotFound"

\* The loadingQ task of p throws: load raises, and so does the applyCommit
\* whose executionQ task called it.
LoadFails(p, nextpc) ==
  /\ loadingQ' = [loadingQ EXCEPT ![call[p].s] = Without(@, p)]
  /\ executionQ' = [executionQ EXCEPT ![call[p].s] = Without(@, p)]
  /\ pc' = [pc EXCEPT ![p] = nextpc]
  /\ call' = [call EXCEPT ![p].res = StreamNotFound, ![p].nb = TRUE]

\* C16, mutant: fromNetwork that throws whatever the dispatcher returns.
LoadFromNetworkFails_Always(p) ==
  /\ pc[p] = "net_wait"
  /\ LoadFails(p, "done")
  /\ UNCHANGED <<rs, inmemory, store, synced, sub, nOps, applied, warned,
                 published, errors, net, model, closed,
                    anchorRequestStore, queueLimit,
                    streamSync>>

\* _loadGenesis, fromNetwork: the dispatcher returns no genesis commit.
LoadFromNetworkFails(p) ==
  /\ pc[p] = "net_wait"
  /\ net[call[p].s] = <<>>
  /\ LoadFails(p, "done")
  /\ UNCHANGED <<rs, inmemory, store, synced, sub, nOps, applied, warned,
                 published, errors, net, model, closed,
                    anchorRequestStore, queueLimit,
                    streamSync>>

\* SYNC_ALWAYS: the fromNetwork branch of Promise.all throws, and so does the
\* task at once; a fromMemoryOrStore branch still pending goes on detached.
SyncAlwaysNetworkFails(p) ==
  /\ pc[p] = "sa_wait"
  /\ ~call[p].nb
  /\ net[call[p].s] = <<>>
  /\ LoadFails(p, IF call[p].mb THEN "done" ELSE "sa_detached")
  /\ UNCHANGED <<rs, inmemory, store, synced, sub, nOps, applied, warned,
                 published, errors, net, model, closed,
                    anchorRequestStore, queueLimit,
                    streamSync>>

\* SYNC_ALWAYS: the fromMemoryOrStore branch resolves after the load raised.
SyncAlwaysStoreDetached(p) ==
  LET s == call[p].s
      a == add(rs, inmemory, Rehydrated(s))
  IN /\ pc[p] = "sa_detached"
     /\ IF store[s] # <<>>
          THEN /\ Len(rs) < MaxInst
               /\ rs' = a.rs
               /\ inmemory' = a.cache
               /\ sub' = Notified(sub, a.out)
          ELSE UNCHANGED <<rs, inmemory, sub>>
     /\ pc' = [pc EXCEPT ![p] = "done"]
     /\ UNCHANGED <<store, synced, loadingQ, executionQ, call, nOps, applied,
                    warned, published, errors, net, model, closed,
                    anchorRequestStore, queueLimit,
                    streamSync>>

\* The steps of a load whose genesis commit is not on the network.
LoadFailSteps ==
  \/ \E p \in Calls : LoadFromNetworkFails(p)
  \/ \E p \in Calls : SyncAlwaysNetworkFails(p)
  \/ \E p \in Calls : SyncAlwaysStoreDetached(p)

\* C12, mutant: sync is called without the tip of the local copy.
SyncDone_NoHint(p) ==
  LET s == call[p].s
      r == call[p].st
      hintlog == <<>>
  IN /\ pc[p] = "sync_wait"
     /\ \E timeout \in BOOLEAN :
          LET newlog == IF timeout THEN rs[r].log
                        ELSE SyncLog(rs[r].log, net[s], hintlog)
          IN rs' = [rs EXCEPT ![r] = RsNext(@, newlog)]
     /\ LoadReturn(p, r, TRUE, call[p].tier)
     /\ streamSync' = streamSync \cup {s}
     /\ UNCHANGED <<inmemory, store, synced, executionQ, sub, nOps, applied,
                    warned, published, errors, net, model, closed,
                    anchorRequestStore, queueLimit>>

\* stateManager.sync resolved (on a timeout it returns without progress);
\* the loadingQ task returns [state$, true].
SyncDone(p) ==
  LET s == call[p].s
      r == call[p].st
      hintlog == IF call[p].sync = SYNC_ALWAYS THEN call[p].hl ELSE <<>>
  IN /\ pc[p] = "sync_wait"
     /\ \E timeout \in BOOLEAN :
          LET newlog == IF timeout THEN rs[r].log
                        ELSE SyncLog(rs[r].log, net[s], hintlog)
          IN rs' = [rs EXCEPT ![r] = RsNext(@, newlog)]
     /\ LoadReturn(p, r, TRUE, call[p].tier)
     /\ streamSync' = streamSync \cup {s}
     /\ UNCHANGED <<inmemory, store, synced, executionQ, sub, nOps, applied,
                    warned, published, errors, net, model, closed,
                    anchorRequestStore, queueLimit>>

\* ------------------------------------------------------------- updates$
\* A subscription to updates$(init) starts: fromMemoryOrStore probes the
\* memory cache; on a miss the state store is read.
Subscribe(u, s) ==
  LET m == CacheGet(inmemory, s)
  IN /\ sub[u].st \in {"idle", "closed", "completed"}
     /\ nOps < MaxOps
     /\ nOps' = nOps + 1
     /\ inmemory' = CacheTouch(inmemory, s)
     /\ sub' = [sub EXCEPT ![u] =
                  [st |-> IF m # 0 THEN "then_wait" ELSE "store_wait",
                   s |-> s, r |-> m]]
     /\ UNCHANGED <<rs, store, synced, loadingQ, executionQ, pc, call, applied,
                    warned, published, errors, net, model, closed,
                    anchorRequestStore, queueLimit,
                    streamSync>>

\* fromStreamStateStore resolved for the subscription.
SubFromStore(u) ==
  LET s == sub[u].s
      a == add(rs, inmemory, Rehydrated(s))
      r == Len(rs) + 1
  IN /\ sub[u].st = "store_wait"
     /\ IF store[s] # <<>>
          THEN /\ Len(rs) < MaxInst
               /\ rs' = a.rs
               /\ inmemory' = a.cache
               /\ sub' = [Notified(sub, a.out) EXCEPT ![u].st = "then_wait",
                                                       ![u].r = r]
          ELSE /\ sub' = [sub EXCEPT ![u].st = "then_wait"]
               /\ UNCHANGED <<rs, inmemory>>
     /\ UNCHANGED <<store, synced, loadingQ, executionQ, pc, call, nOps,
                    applied, warned, published, errors, net, model, closed,
                    anchorRequestStore, queueLimit,
                    streamSync>>

\* The then-callback: the found state, or a fresh RunningState(init, false),
\* is endured and subscribed to.  A completed state closes the subscriber at
\* once, and its teardown frees the key.
SubThen(u) ==
  LET s == sub[u].s
      fresh == sub[u].r = 0
      r == IF fresh THEN Len(rs) + 1 ELSE sub[u].r
      rs1 == IF fresh
               THEN Append(rs, NewRunningState(s, <<Genesis>>, FALSE))
               ELSE rs
      c1 == CacheEndure(inmemory, s, r)
  IN /\ sub[u].st = "then_wait"
     /\ fresh => Len(rs) < MaxInst
     /\ IF rs1[r].complete
          THEN /\ rs' = rs1
               /\ inmemory' = CacheFree(c1, s)
               /\ sub' = [sub EXCEPT ![u].st = "closed", ![u].r = r]
          ELSE /\ rs' = [rs1 EXCEPT ![r].observers = @ \cup {u}]
               /\ inmemory' = c1
               /\ sub' = [sub EXCEPT ![u].st = "active", ![u].r = r]
     /\ UNCHANGED <<store, synced, loadingQ, executionQ, pc, call, nOps,
                    applied, warned, published, errors, net, model, closed,
                    anchorRequestStore, queueLimit,
                    streamSync>>

\* The subscriber unsubscribes; the teardown frees the key when the state has
\* no observers left.
Unsubscribe(u) ==
  LET s == sub[u].s
      r == sub[u].r
      left == rs[r].observers \ {u}
  IN /\ sub[u].st = "active"
     /\ rs' = [rs EXCEPT ![r].observers = left]
     /\ inmemory' = IF left = {} THEN CacheFree(inmemory, s) ELSE inmemory
     /\ sub' = [sub EXCEPT ![u].st = "closed"]
     /\ UNCHANGED <<store, synced, loadingQ, executionQ, pc, call, nOps,
                    applied, warned, published, errors, net, model, closed,
                    anchorRequestStore, queueLimit,
                    streamSync>>

\* ----------------------------------------------------------- applyCommit
\* The commits of the applyCommit calls on stream s that have not returned.
InFlight(s) ==
  {call[q].tk : q \in {x \in Calls : /\ call[x].op = "applyCommit"
                                     /\ call[x].s = s
                                     /\ pc[x] \notin {"idle", "done"}}}

\* applyCommit(streamId, commit, opts) is called: StateManager.applyCommit
\* queues its task on executionQ.  The commit is numbered by the call, which
\* notes the calls on the stream it was issued after without awaiting them.
StartApplyCommit(p, s, pin) ==
  /\ pc[p] \in {"idle", "done"}
  /\ nOps < MaxOps
  /\ ~Closed("executionQ")
  /\ nOps' = nOps + 1
  /\ call' = [call EXCEPT ![p] = [NoCall EXCEPT !.op = "applyCommit", !.s = s,
                !.sync = PREFER_CACHE, !.pin = pin, !.tk = nOps + 1,
                !.opType = UPDATE, !.after = InFlight(s)]]
  /\ executionQ' = [executionQ EXCEPT ![s] = Append(@, p)]
  /\ pc' = [pc EXCEPT ![p] = "xq_wait"]
  /\ UNCHANGED <<rs, inmemory, store, synced, loadingQ, sub, applied, warned,
                 published, errors, net, model, closed,
                    anchorRequestStore, queueLimit,
                    streamSync>>

\* The executionQ task starts and loads the running state through the load
\* callback of the Repository.
ExecTask(p) ==
  LET s == call[p].s
  IN /\ CanStart(executionQ, "xq_wait", p, s)
     /\ ~Closed("loadingQ")
     /\ loadingQ' = [loadingQ EXCEPT ![s] = Append(@, p)]
     /\ pc' = [pc EXCEPT ![p] = "lq_wait"]
     /\ UNCHANGED <<rs, inmemory, store, synced, executionQ, call, sub, nOps,
                    applied, warned, published, errors, net, model, closed,
                    anchorRequestStore, queueLimit,
                    streamSync>>

\* The handler computed the next state: it is emitted into the running
\* state and persisted if the stream is pinned; the executionQ task ends.
ApplyDone(p) ==
  LET s == call[p].s
      r == call[p].st
      rs1 == [rs EXCEPT ![r] = RsNext(@, Append(rs[r].log, call[p].tk))]
  IN /\ pc[p] = "apply_wait"
     /\ rs' = rs1
     /\ store' = IF store[s] # <<>> THEN [store EXCEPT ![s] = rs1[r].log]
                 ELSE store
     /\ executionQ' = [executionQ EXCEPT ![s] = Without(@, p)]
     /\ pc' = [pc EXCEPT ![p] = "opts_wait"]
     /\ UNCHANGED <<inmemory, synced, loadingQ, call, sub, nOps, applied,
                    warned, published, errors, net, model, closed,
                    anchorRequestStore, queueLimit,
                    streamSync>>

\* ------------------------------------------------------- applyCreateOpts
\* applyCreateOpts(streamId, opts) is called: it starts with load.
StartApplyCreateOpts(p, s, mode, pin) ==
  /\ pc[p] \in {"idle", "done"}
  /\ nOps < MaxOps
  /\ ~Closed("loadingQ")
  /\ nOps' = nOps + 1
  /\ call' = [call EXCEPT ![p] = [NoCall EXCEPT !.op = "applyCreateOpts",
                !.s = s, !.sync = mode, !.pin = pin]]
  /\ loadingQ' = [loadingQ EXCEPT ![s] = Append(@, p)]
  /\ pc' = [pc EXCEPT ![p] = "lq_wait"]
  /\ UNCHANGED <<rs, inmemory, store, synced, executionQ, sub, applied, warned,
                 published, errors, net, model, closed,
                    anchorRequestStore, queueLimit,
                    streamSync>>

\* --------------------------------------------------------- handlePinOpts
\* C6, mutant: handlePinOpts without the pin of a create that leaves opts.pin
\* undefined.
PinAction_NoCreateDefault(r, pin, opType) ==
  IF pin # "undefined" /\ opType # CREATE THEN "warn"
  ELSE IF \/ pin = "true"
          \/ (pin = "undefined" /\ shouldIndex(r))
    THEN "pin"
  ELSE IF pin = "false" THEN "unpin"
  ELSE "none"

\* C7, mutant: handlePinOpts without the early return that warns about an
\* explicit opts.pin on an update or a load.
PinAction_NoWarn(r, pin, opType) ==
  IF \/ pin = "true"
     \/ (pin = "undefined" /\ shouldIndex(r))
     \/ (pin = "undefined" /\ opType = CREATE)
    THEN "pin"
  ELSE IF pin = "false" THEN "unpin"
  ELSE "none"

\* C8, mutant: handlePinOpts without the pin of an indexed stream that leaves
\* opts.pin undefined.
PinAction_NoIndexDefault(r, pin, opType) ==
  IF pin # "undefined" /\ opType # CREATE THEN "warn"
  ELSE IF \/ pin = "true"
          \/ (pin = "undefined" /\ opType = CREATE)
    THEN "pin"
  ELSE "none"

\* C9, mutant: handlePinOpts that does nothing for opts.pin false.
PinAction_FalseIsNoOp(r, pin, opType) ==
  IF pin # "undefined" /\ opType # CREATE THEN "warn"
  ELSE IF \/ pin = "true"
          \/ (pin = "undefined" /\ shouldIndex(r))
          \/ (pin = "undefined" /\ opType = CREATE)
    THEN "pin"
  ELSE "none"

\* What handlePinOpts does for opts.pin and the operation type.
PinAction(r, pin, opType) ==
  IF pin # "undefined" /\ opType # CREATE THEN "warn"
  ELSE IF \/ pin = "true"
          \/ (pin = "undefined" /\ shouldIndex(r))
          \/ (pin = "undefined" /\ opType = CREATE)
    THEN "pin"
  ELSE IF pin = "false" THEN "unpin"
  ELSE "none"

\* C10, mutant: unpin without the check of the index.
UnpinRaises_Never(r) == FALSE

\* unpin(state$, opts) raises on an indexed stream.
UnpinRaises(r) == shouldIndex(r)

\* pinStore.add(state$): the state is saved and the running state marked.
PinStoreAdd(rsv, r) == [rsv EXCEPT ![r].isPinned = TRUE]

\* pinStore.rm(state$): the state is removed and the running state unmarked.
PinStoreRm(rsv, r) == [rsv EXCEPT ![r].isPinned = FALSE]

\* unpin(state$, opts) up to the call of pinStore.rm.
Unpin(p, r, pub) ==
  IF UnpinRaises(rs[r])
    THEN /\ Return(p, "error", rs, store)
         /\ errors' = errors + 1
         /\ UNCHANGED <<published, synced>>
    ELSE /\ published' = IF pub THEN published + 1 ELSE published
         /\ synced' = synced \ {rs[r].id}
         /\ pc' = [pc EXCEPT ![p] = "rm_wait"]
         /\ UNCHANGED <<call, applied, errors>>

\* applyWriteOpts: after stateManager.applyWriteOpts, handlePinOpts.
WriteOpts(p) ==
  LET s == call[p].s
      r == call[p].st
      act == PinAction(rs[r], call[p].pin, call[p].opType)
  IN /\ pc[p] = "opts_wait"
     /\ IF act = "warn"
          THEN /\ warned' = warned + 1
               /\ Return(p, "ok", rs, store)
               /\ UNCHANGED <<rs, store, synced, published, errors>>
          ELSE IF act = "pin"
            THEN /\ rs' = PinStoreAdd(rs, r)
                 /\ store' = [store EXCEPT ![s] = rs[r].log]
                 /\ Return(p, "ok", rs', store')
                 /\ UNCHANGED <<warned, synced, published, errors>>
            ELSE IF act = "unpin"
              THEN /\ Unpin(p, r, FALSE)
                   /\ UNCHANGED <<rs, store, warned>>
              ELSE /\ Return(p, "ok", rs, store)
                   /\ UNCHANGED <<rs, store, warned, synced, published, errors>>
     /\ UNCHANGED <<inmemory, loadingQ, executionQ, sub, nOps, net, model, closed,
                    anchorRequestStore, queueLimit,
                    streamSync>>

\* pinStore.rm resolved; unpin returns.
RmDone(p) ==
  LET r == call[p].st
  IN /\ pc[p] = "rm_wait"
     /\ rs' = PinStoreRm(rs, r)
     /\ store' = [store EXCEPT ![rs[r].id] = <<>>]
     /\ Return(p, "ok", rs', store')
     /\ UNCHANGED <<inmemory, synced, loadingQ, executionQ, sub, nOps, warned,
                    published, errors, net, model, closed,
                    anchorRequestStore, queueLimit,
                    streamSync>>

\* C11, mutant: unpin that publishes the tip whatever opts.publish is.
StartUnpin_AlwaysPublish(p, r, pub) ==
  /\ pc[p] \in {"idle", "done"}
  /\ nOps < MaxOps
  /\ r \in DOMAIN rs
  /\ nOps' = nOps + 1
  /\ LET c0 == [NoCall EXCEPT !.op = "unpin", !.s = rs[r].id, !.pub = pub,
                  !.st = r]
     IN IF UnpinRaises(rs[r])
          THEN /\ errors' = errors + 1
               /\ pc' = [pc EXCEPT ![p] = "done"]
               /\ call' = [call EXCEPT ![p] = [c0 EXCEPT !.res = "error",
                             !.pinned = IsPinned(rs, store, r)]]
               /\ UNCHANGED <<published, synced>>
          ELSE /\ published' = published + 1
               /\ synced' = synced \ {rs[r].id}
               /\ pc' = [pc EXCEPT ![p] = "rm_wait"]
               /\ call' = [call EXCEPT ![p] = c0]
               /\ UNCHANGED errors
  /\ UNCHANGED <<rs, inmemory, store, loadingQ, executionQ, sub, applied,
                 warned, net, model, closed,
                    anchorRequestStore, queueLimit,
                    streamSync>>

\* unpin(state$, opts) is called on a running state the caller holds.
StartUnpin(p, r, pub) ==
  /\ pc[p] \in {"idle", "done"}
  /\ nOps < MaxOps
  /\ r \in DOMAIN rs
  /\ nOps' = nOps + 1
  /\ LET c0 == [NoCall EXCEPT !.op = "unpin", !.s = rs[r].id, !.pub = pub,
                  !.st = r]
     IN IF UnpinRaises(rs[r])
          THEN /\ errors' = errors + 1
               /\ pc' = [pc EXCEPT ![p] = "done"]
               /\ call' = [call EXCEPT ![p] = [c0 EXCEPT !.res = "error",
                             !.pinned = IsPinned(rs, store, r)]]
               /\ UNCHANGED <<published, synced>>
          ELSE /\ published' = IF pub THEN published + 1 ELSE published
               /\ synced' = synced \ {rs[r].id}
               /\ pc' = [pc EXCEPT ![p] = "rm_wait"]
               /\ call' = [call EXCEPT ![p] = c0]
               /\ UNCHANGED errors
  /\ UNCHANGED <<rs, inmemory, store, loadingQ, executionQ, sub, applied,
                 warned, net, model, closed,
                    anchorRequestStore, queueLimit,
                    streamSync>>

\* pin(state$) is called on a running state the caller holds.
StartPin(p, r) ==
  /\ pc[p] \in {"idle", "done"}
  /\ nOps < MaxOps
  /\ r \in DOMAIN rs
  /\ nOps' = nOps + 1
  /\ rs' = PinStoreAdd(rs, r)
  /\ store' = [store EXCEPT ![rs[r].id] = rs[r].log]
  /\ pc' = [pc EXCEPT ![p] = "done"]
  /\ call' = [call EXCEPT ![p] = [NoCall EXCEPT !.op = "pin", !.s = rs[r].id,
                !.st = r, !.res = "ok", !.pinned = TRUE]]
  /\ UNCHANGED <<inmemory, synced, loadingQ, executionQ, sub, applied, warned,
                 published, errors, net, model, closed,
                    anchorRequestStore, queueLimit,
                    streamSync>>

\* ---------------------------------------------------------- loadAtCommit
\* C21, mutant: loadAtCommit that loads the base stream with the caller's
\* skipCacaoExpirationChecks.
StartLoadAtCommit_CallerSkip(p, s, mode, c, skip) ==
  /\ pc[p] \in {"idle", "done"}
  /\ nOps < MaxOps
  /\ ~Closed("loadingQ")
  /\ nOps' = nOps + 1
  /\ call' = [call EXCEPT ![p] = [NoCall EXCEPT !.op = "loadAtCommit",
                !.s = s, !.sync = mode, !.tk = c, !.skip = skip]]
  /\ loadingQ' = [loadingQ EXCEPT ![s] = Append(@, p)]
  /\ pc' = [pc EXCEPT ![p] = "lq_wait"]
  /\ UNCHANGED <<rs, inmemory, store, synced, executionQ, sub, applied,
                 warned, published, errors, net, model, closed,
                 anchorRequestStore, queueLimit,
                    streamSync>>

\* loadAtCommit(commitId, opts) is called, opts.skipCacaoExpirationChecks
\* being skip: the base stream is loaded with the checks skipped.
StartLoadAtCommit(p, s, mode, c, skip) ==
  /\ pc[p] \in {"idle", "done"}
  /\ nOps < MaxOps
  /\ ~Closed("loadingQ")
  /\ nOps' = nOps + 1
  /\ call' = [call EXCEPT ![p] = [NoCall EXCEPT !.op = "loadAtCommit",
                !.s = s, !.sync = mode, !.tk = c, !.skip = TRUE]]
  /\ loadingQ' = [loadingQ EXCEPT ![s] = Append(@, p)]
  /\ pc' = [pc EXCEPT ![p] = "lq_wait"]
  /\ UNCHANGED <<rs, inmemory, store, synced, executionQ, sub, applied,
                 warned, published, errors, net, model, closed,
                 anchorRequestStore, queueLimit,
                    streamSync>>

\* Whether commit c is in the log.
InLog(log, c) == c \in Range(log)

\* stateManager.atCommit(base$, commitId): the log replayed from genesis to
\* the commit.
atCommit(log, c) ==
  SubSeq(log, 1, CHOOSE i \in 1 .. Len(log) : log[i] = c)

\* stateManager.atCommit resolved: it fails for a commit that is not in the
\* log of the base stream; otherwise the capabilities of the snapshot are
\* checked and the snapshot is returned.
AtCommitDone(p) ==
  LET base == rs[call[p].st].log
      c == call[p].tk
  IN /\ pc[p] = "at_wait"
     /\ IF ~InLog(base, c)
          THEN Return(p, "CommitNotInLog", rs, store)
          ELSE IF ExpiredCommit \in Range(atCommit(base, c))
            THEN Return(p, "CapabilityExpired", rs, store)
            ELSE Return(p, "ok", rs, store)
     /\ UNCHANGED <<rs, inmemory, store, synced, loadingQ, executionQ, sub,
                    nOps, warned, published, errors, net, model, closed,
                    anchorRequestStore, queueLimit,
                    streamSync>>

\* ----------------------------------------------------------------- close
\* The error of a task that a closed ExecutionQueue does not run.
QueueClosed == "QueueClosed"

\* The lanes of a queue without the calls in out.
Cancel(q, out) == [s \in Streams |-> SelectSeq(q[s], LAMBDA x : x \notin out)]

\* The calls in out fail with QueueClosed.
Fail(out, p, c) ==
  /\ pc' = [q \in Calls |-> IF q = p THEN c
                             ELSE IF q \in out THEN "done" ELSE pc[q]]
  /\ call' = [q \in Calls |->
                IF q = p /\ c = "close_lq" THEN [NoCall EXCEPT !.op = "close"]
                ELSE IF q \in out THEN [call[q] EXCEPT !.res = QueueClosed]
                ELSE call[q]]

\* close() is called: loadingQ.close() rejects the tasks not yet started and
\* awaits the ones in flight.  An executionQ task whose load is rejected
\* fails with it.
StartClose(p) ==
  LET out == {q \in Calls : pc[q] = "lq_wait"}
  IN /\ pc[p] \in {"idle", "done"}
     /\ nOps < MaxOps
     /\ nOps' = nOps + 1
     /\ loadingQ' = Cancel(loadingQ, out)
     /\ executionQ' = Cancel(executionQ, out)
     /\ Fail(out, p, "close_lq")
     /\ closed' = Mark("loadingQ")
     /\ UNCHANGED <<rs, inmemory, store, synced, sub, applied, warned,
                    published, errors, net, model,
                    anchorRequestStore, queueLimit,
                    streamSync>>

\* loadingQ.close() resolved, the queue is drained: executionQ.close().
CloseLoadingQ(p) ==
  LET out == {q \in Calls : pc[q] = "xq_wait"}
  IN /\ pc[p] = "close_lq"
     /\ \A s \in Streams : loadingQ[s] = <<>>
     /\ executionQ' = Cancel(executionQ, out)
     /\ Fail(out, p, "close_xq")
     /\ closed' = Mark("executionQ")
     /\ UNCHANGED <<rs, inmemory, store, synced, loadingQ, sub, nOps, applied,
                    warned, published, errors, net, model,
                    anchorRequestStore, queueLimit,
                    streamSync>>

\* executionQ.close() resolved: every cache entry is deleted and its running
\* state completed, and pinStore.close() is called.
CloseExecutionQ(p) ==
  LET live == {inmemory.val[k] : k \in Streams} \ {0}
  IN /\ pc[p] = "close_xq"
     /\ \A s \in Streams : executionQ[s] = <<>>
     /\ rs' = onEvicted(rs, live)
     /\ inmemory' = EmptyCache
     /\ sub' = Notified(sub, live)
     /\ pc' = [pc EXCEPT ![p] = "close_pin"]
     /\ closed' = Mark("inmemory")
     /\ UNCHANGED <<store, synced, loadingQ, executionQ, call, nOps, applied,
                    warned, published, errors, net, model,
                    anchorRequestStore, queueLimit,
                    streamSync>>

\* pinStore.close() resolved: index.close() is called.
ClosePinStore(p) ==
  /\ pc[p] = "close_pin"
  /\ pc' = [pc EXCEPT ![p] = "close_idx"]
  /\ closed' = Mark("pinStore")
  /\ UNCHANGED <<rs, inmemory, store, synced, loadingQ, executionQ, call, sub,
                 nOps, applied, warned, published, errors, net, model,
                    anchorRequestStore, queueLimit,
                    streamSync>>

\* index.close() resolved: close() returns.
CloseIndex(p) ==
  /\ pc[p] = "close_idx"
  /\ pc' = [pc EXCEPT ![p] = "done"]
  /\ call' = [call EXCEPT ![p].res = "ok"]
  /\ closed' = Mark("index")
  /\ UNCHANGED <<rs, inmemory, store, synced, loadingQ, executionQ, sub, nOps,
                 applied, warned, published, errors, net, model,
                    anchorRequestStore, queueLimit,
                    streamSync>>

\* A call whose first task the closed queue rejects.
Rejected(p, op, s, mode) ==
  /\ pc[p] \in {"idle", "done"}
  /\ nOps < MaxOps
  /\ nOps' = nOps + 1
  /\ pc' = [pc EXCEPT ![p] = "done"]
  /\ call' = [call EXCEPT ![p] = [NoCall EXCEPT !.op = op, !.s = s,
                !.sync = mode, !.res = QueueClosed]]
  /\ UNCHANGED <<rs, inmemory, store, synced, loadingQ, executionQ, sub,
                 applied, warned, published, errors, net, model, closed,
                    anchorRequestStore, queueLimit,
                    streamSync>>

\* C15, mutant: a closed loadingQ that runs the task of a late load.
LoadRejected_Accepted(p, s, mode) ==
  /\ pc[p] \in {"idle", "done"}
  /\ nOps < MaxOps
  /\ Closed("loadingQ")
  /\ nOps' = nOps + 1
  /\ call' = [call EXCEPT ![p] = [NoCall EXCEPT !.op = "load", !.s = s,
                !.sync = mode]]
  /\ loadingQ' = [loadingQ EXCEPT ![s] = Append(@, p)]
  /\ pc' = [pc EXCEPT ![p] = "lq_wait"]
  /\ UNCHANGED <<rs, inmemory, store, synced, executionQ, sub, applied,
                 warned, published, errors, net, model, closed,
                    anchorRequestStore, queueLimit,
                    streamSync>>

\* load(streamId, opts) after loadingQ.close()
LoadRejected(p, s, mode) ==
  /\ Closed("loadingQ")
  /\ Rejected(p, "load", s, mode)

\* applyCreateOpts(streamId, opts) after loadingQ.close(): its load is
\* rejected.
CreateOptsRejected(p, s, mode) ==
  /\ Closed("loadingQ")
  /\ Rejected(p, "applyCreateOpts", s, mode)

\* applyCommit(streamId, commit, opts) after executionQ.close()
ApplyCommitRejected(p, s) ==
  /\ Closed("executionQ")
  /\ Rejected(p, "applyCommit", s, PREFER_CACHE)

\* An executionQ task that starts after loadingQ.close(): its load is
\* rejected and the applyCommit fails.
ExecTaskRejected(p) ==
  LET s == call[p].s
  IN /\ CanStart(executionQ, "xq_wait", p, s)
     /\ Closed("loadingQ")
     /\ executionQ' = [executionQ EXCEPT ![s] = Without(@, p)]
     /\ pc' = [pc EXCEPT ![p] = "done"]
     /\ call' = [call EXCEPT ![p].res = QueueClosed]
     /\ UNCHANGED <<rs, inmemory, store, synced, loadingQ, sub, nOps, applied,
                    warned, published, errors, net, model, closed,
                    anchorRequestStore, queueLimit,
                    streamSync>>

\* The steps of a close() and of the calls the closed queues reject.
CloseSteps ==
  \/ \E p \in Calls : CloseLoadingQ(p)
  \/ \E p \in Calls : CloseExecutionQ(p)
  \/ \E p \in Calls : ClosePinStore(p)
  \/ \E p \in Calls : CloseIndex(p)
  \/ \E p \in Calls : ExecTaskRejected(p)

\* ------------------------------------------------------------------ Next
\* The steps that resume a suspended load.
LoadSteps ==
  \/ \E p \in Calls : LoadTask(p)
  \/ \E p \in Calls : LoadFromStore(p)
  \/ \E p \in Calls : LoadFromNetwork(p)
  \/ \E p \in Calls : SyncAlwaysNetwork(p)
  \/ \E p \in Calls : SyncAlwaysStore(p)
  \/ \E p \in Calls : SyncDone(p)
  \/ \E p \in Calls : LoadPost(p)

\* The steps that resume a suspended updates$ subscription.
SubSteps ==
  \/ \E u \in Subs : SubFromStore(u)
  \/ \E u \in Subs : SubThen(u)
  \/ \E u \in Subs : Unsubscribe(u)

\* The steps that resume a suspended mutation.
WriteSteps ==
  \/ \E p \in Calls : ExecTask(p)
  \/ \E p \in Calls : ApplyDone(p)
  \/ \E p \in Calls : WriteOpts(p)
  \/ \E p \in Calls : RmDone(p)

Next ==
  \/ \E p \in Calls, s \in Streams, m \in SyncOptions : StartLoad(p, s, m)
  \/ \E p \in Calls, s \in Streams, m \in SyncOptions : StartLoadSkip(p, s, m)
  \/ \E u \in Subs, s \in Streams : Subscribe(u, s)
  \/ \E p \in Calls, s \in Streams, pin \in PinOpts : StartApplyCommit(p, s, pin)
  \/ \E p \in Calls, s \in Streams, m \in SyncOptions, pin \in PinOpts :
       StartApplyCreateOpts(p, s, m, pin)
  \/ \E p \in Calls, r \in 1 .. MaxInst, pub \in BOOLEAN : StartUnpin(p, r, pub)
  \/ \E p \in Calls, r \in 1 .. MaxInst : StartPin(p, r)
  \/ \E p \in Calls, s \in Streams, m \in SyncOptions,
          c \in {Genesis, ExpiredCommit}, skip \in BOOLEAN :
       StartLoadAtCommit(p, s, m, c, skip)
  \/ \E p \in Calls : AtCommitDone(p)
  \/ \E p \in Calls : StartClose(p)
  \/ \E p \in Calls, s \in Streams, m \in SyncOptions : LoadRejected(p, s, m)
  \/ \E p \in Calls, s \in Streams, m \in SyncOptions :
       CreateOptsRejected(p, s, m)
  \/ \E p \in Calls, s \in Streams : ApplyCommitRejected(p, s)
  \/ LoadSteps
  \/ LoadFailSteps
  \/ SubSteps
  \/ WriteSteps
  \/ CloseSteps

Spec == Init /\ [][Next]_vars

\* Loads, updates and subscriptions of streams without a model, on a network
\* that holds their genesis commits only.
InitCache ==
  /\ InitState
  /\ net = [s \in Streams |-> <<Genesis>>]
  /\ model = [s \in Streams |-> "none"]

NextCache ==
  \/ \E p \in Calls, s \in Streams, m \in SyncOptions : StartLoad(p, s, m)
  \/ \E u \in Subs, s \in Streams : Subscribe(u, s)
  \/ \E p \in Calls, s \in Streams : StartApplyCommit(p, s, "undefined")
  \/ \E p \in Calls, r \in 1 .. MaxInst : StartPin(p, r)
  \/ LoadSteps
  \/ SubSteps
  \/ \E p \in Calls : ExecTask(p)
  \/ \E p \in Calls : ApplyDone(p)
  \/ \E p \in Calls : WriteOpts(p)

SpecCache == InitCache /\ [][NextCache]_vars

\* Loads and updates, with streams pinned when created.
NextApply ==
  \/ \E p \in Calls, s \in Streams, m \in SyncOptions : StartLoad(p, s, m)
  \/ \E p \in Calls, s \in Streams : StartApplyCommit(p, s, "undefined")
  \/ \E p \in Calls, s \in Streams :
       StartApplyCreateOpts(p, s, PREFER_CACHE, "undefined")
  \/ LoadSteps
  \/ \E p \in Calls : ExecTask(p)
  \/ \E p \in Calls : ApplyDone(p)
  \/ \E p \in Calls : WriteOpts(p)

SpecApply == InitCache /\ [][NextApply]_vars

\* The pin policy: creates, updates and the admin pin and unpin calls on one
\* stream, with or without an indexed model, new or known to the network.
PinStreams == {1}

InitPin ==
  /\ InitState
  /\ net \in {[s \in Streams |-> IF s \in PinStreams THEN l ELSE <<Genesis>>] :
                l \in {<<Genesis>>, <<Genesis, RemoteCommit>>}}
  /\ model \in {[s \in Streams |-> IF s \in PinStreams THEN m ELSE "none"] :
                  m \in Models}

NextPin ==
  \/ \E p \in Calls, s \in PinStreams, pin \in PinOpts :
       StartApplyCommit(p, s, pin)
  \/ \E p \in Calls, s \in PinStreams, pin \in PinOpts :
       StartApplyCreateOpts(p, s, PREFER_CACHE, pin)
  \/ \E p \in Calls, r \in 1 .. MaxInst, pub \in BOOLEAN : StartUnpin(p, r, pub)
  \/ \E p \in Calls, r \in 1 .. MaxInst : StartPin(p, r)
  \/ \E p \in Calls : LoadTask(p)
  \/ \E p \in Calls : LoadFromStore(p)
  \/ \E p \in Calls : LoadFromNetwork(p)
  \/ \E p \in Calls : SyncDone(p)
  \/ \E p \in Calls : LoadPost(p)
  \/ WriteSteps

SpecPin == InitPin /\ [][NextPin]_vars

\* The loads of a node that was restarted: the state store may hold stream 1
\* with a tip that an earlier run of this node applied, and the network may
\* hold a tip of another node.
LocalCommit == 8

SyncStreams == {1}

InitSync ==
  /\ InitProcess
  /\ store \in {[s \in Streams |-> IF s \in SyncStreams THEN l ELSE <<>>] :
                  l \in {<<>>, <<Genesis, LocalCommit>>}}
  /\ net \in {[s \in Streams |-> IF s \in SyncStreams THEN l ELSE <<Genesis>>] :
                l \in {<<Genesis>>, <<Genesis, RemoteCommit>>}}
  /\ model = [s \in Streams |-> "none"]

NextSync ==
  \/ \E p \in Calls, s \in Streams, m \in SyncOptions : StartLoad(p, s, m)
  \/ LoadSteps

SpecSync == InitSync /\ [][NextSync]_vars

\* The loads, with and without skipCacaoExpirationChecks, of a node whose
\* state store may hold stream 1 with a commit whose capability has expired.
InitCacao ==
  /\ InitProcess
  /\ store \in {[s \in Streams |-> IF s \in SyncStreams THEN l ELSE <<>>] :
                  l \in {<<>>, <<Genesis, ExpiredCommit>>}}
  /\ net = [s \in Streams |-> <<Genesis>>]
  /\ model = [s \in Streams |-> "none"]

NextCacao ==
  \/ \E p \in Calls, s \in Streams, m \in SyncOptions : StartLoad(p, s, m)
  \/ \E p \in Calls, s \in Streams, m \in SyncOptions : StartLoadSkip(p, s, m)
  \/ LoadSteps

SpecCacao == InitCacao /\ [][NextCacao]_vars

\* loadAtCommit on a node whose state store may hold stream 1 with a commit
\* whose capability has expired.
NextAtCommit ==
  \/ \E p \in Calls, s \in Streams, m \in SyncOptions,
          c \in {Genesis, ExpiredCommit}, skip \in BOOLEAN :
       StartLoadAtCommit(p, s, m, c, skip)
  \/ LoadSteps
  \/ \E p \in Calls : AtCommitDone(p)

SpecAtCommit == InitCacao /\ [][NextAtCommit]_vars

\* Loads, updates and creates through queues built with any concurrency
\* limit from one to concurrencyLimit; every continuation that is ready
\* eventually runs.
InitLive ==
  /\ InitCalls
  /\ queueLimit \in 1 .. concurrencyLimit
  /\ store = [s \in Streams |-> <<>>]
  /\ anchorRequestStore = [s \in Streams |-> 0]
  /\ net = [s \in Streams |-> <<Genesis>>]
  /\ model = [s \in Streams |-> "none"]

NextLive ==
  \/ \E p \in Calls, s \in Streams : StartLoad(p, s, PREFER_CACHE)
  \/ \E p \in Calls, s \in Streams : StartApplyCommit(p, s, "undefined")
  \/ \E p \in Calls, s \in Streams :
       StartApplyCreateOpts(p, s, PREFER_CACHE, "undefined")
  \/ \E p \in Calls : LoadTask(p)
  \/ \E p \in Calls : LoadFromStore(p)
  \/ \E p \in Calls : LoadFromNetwork(p)
  \/ \E p \in Calls : SyncDone(p)
  \/ \E p \in Calls : LoadPost(p)
  \/ \E p \in Calls : ExecTask(p)
  \/ \E p \in Calls : ApplyDone(p)
  \/ \E p \in Calls : WriteOpts(p)

SpecLive ==
  /\ InitLive
  /\ [][NextLive]_vars
  /\ WF_vars(\E p \in Calls : LoadTask(p))
  /\ WF_vars(\E p \in Calls : LoadFromStore(p))
  /\ WF_vars(\E p \in Calls : LoadFromNetwork(p))
  /\ WF_vars(\E p \in Calls : SyncDone(p))
  /\ WF_vars(\E p \in Calls : LoadPost(p))
  /\ WF_vars(\E p \in Calls : ExecTask(p))
  /\ WF_vars(\E p \in Calls : ApplyDone(p))
  /\ WF_vars(\E p \in Calls : WriteOpts(p))

\* Loads on a node whose state store may hold stream 1, of streams whose
\* genesis commit the dispatcher may not return.
InitTiers ==
  /\ InitProcess
  /\ store \in {[s \in Streams |-> IF s \in SyncStreams THEN l ELSE <<>>] :
                  l \in {<<>>, <<Genesis, LocalCommit>>}}
  /\ net \in [Streams -> {<<>>, <<Genesis>>}]
  /\ model = [s \in Streams |-> "none"]

NextTiers ==
  \/ \E p \in Calls, s \in Streams, m \in SyncOptions : StartLoad(p, s, m)
  \/ LoadSteps
  \/ LoadFailSteps

SpecTiers == InitTiers /\ [][NextTiers]_vars

\* Loads on a node whose state store may hold stream 1 and whose
\* anchor-request store may hold a request for its tip.
InitAnchor ==
  /\ InitRun
  /\ store \in {[s \in Streams |-> IF s \in SyncStreams THEN l ELSE <<>>] :
                  l \in {<<>>, <<Genesis, LocalCommit>>}}
  /\ anchorRequestStore \in
       {[s \in Streams |-> IF s \in SyncStreams THEN c ELSE 0] :
          c \in {0, LocalCommit}}
  /\ net = [s \in Streams |-> <<Genesis>>]
  /\ model = [s \in Streams |-> "none"]

SpecAnchor == InitAnchor /\ [][NextSync]_vars

\* Loads, updates, subscriptions and unpins of indexed streams around
\* close().
InitClose ==
  /\ InitState
  /\ net = [s \in Streams |-> <<Genesis>>]
  /\ model = [s \in Streams |-> "indexed"]

NextClose ==
  \/ \E p \in Calls, s \in Streams : StartLoad(p, s, PREFER_CACHE)
  \/ \E u \in Subs, s \in Streams : Subscribe(u, s)
  \/ \E p \in Calls, s \in Streams : StartApplyCommit(p, s, "undefined")
  \/ \E p \in Calls, r \in 1 .. MaxInst : StartUnpin(p, r, FALSE)
  \/ \E p \in Calls : StartClose(p)
  \/ \E p \in Calls, s \in Streams : LoadRejected(p, s, PREFER_CACHE)
  \/ \E p \in Calls, s \in Streams : CreateOptsRejected(p, s, PREFER_CACHE)
  \/ \E p \in Calls, s \in Streams : ApplyCommitRejected(p, s)
  \/ \E p \in Calls : LoadTask(p)
  \/ \E p \in Calls : LoadFromStore(p)
  \/ \E p \in Calls : LoadFromNetwork(p)
  \/ \E p \in Calls : SyncDone(p)
  \/ \E p \in Calls : LoadPost(p)
  \/ SubSteps
  \/ \E p \in Calls : ExecTask(p)
  \/ \E p \in Calls : ApplyDone(p)
  \/ \E p \in Calls : WriteOpts(p)
  \/ CloseSteps

SpecClose == InitClose /\ [][NextClose]_vars

\* ------------------------------------------------------------- claims
\* The subscribers of stream s that are subscribed to a running state.
ActiveSubs(s) == {u \in Subs : sub[u].st = "active" /\ sub[u].s = s}

\* The running states of stream s that are in use: the cache entry, the
\* states observed through updates$, and the states load is about to return.
LiveStates(s) ==
  {r \in DOMAIN rs :
     /\ rs[r].id = s
     /\ ~rs[r].complete
     /\ \/ inmemory.val[s] = r
        \/ \E u \in ActiveSubs(s) : sub[u].r = r
        \/ \E p \in Calls : pc[p] = "load_post" /\ call[p].st = r}

\* C1: every stream has at most one live RunningState: the cache entry is
\* the state load returns and the state every active updates$ subscriber of
\* the stream is subscribed to.
C1_SingleLiveState == \A s \in Streams : Cardinality(LiveStates(s)) <= 1

\* C2: while an updates$ subscriber is active, the RunningState it observes
\* is the cache entry of its stream and is not completed by an eviction.
C2_Endurance ==
  \A u \in Subs :
    /\ sub[u].st # "completed"
    /\ sub[u].st = "active" => inmemory.val[sub[u].s] = sub[u].r

\* C3: once the last updates$ subscriber of a stream has unsubscribed, the
\* cache entry of the stream is not endured any more (refcount zero).
C3_ReleasedAfterLastUnsubscribe ==
  \A s \in Streams : ActiveSubs(s) = {} => inmemory.ref[s] = 0


\* ------------------------------------------------------------ claims C4, C5
\* c1 is directly followed by c2 in q.
Consecutive(q, c1, c2) ==
  \E i \in DOMAIN q : (i + 1) \in DOMAIN q /\ q[i] = c1 /\ q[i + 1] = c2

\* C4, as stated: when an applyCommit call on a stream has returned, every
\* call on that stream it was issued after without awaiting has returned
\* too, and in the RunningState it returned the commit of the earlier call is
\* directly followed by its own, in the log and in the emissions.
C4_SubmissionOrder ==
  \A q \in Calls :
    (call[q].op = "applyCommit" /\ pc[q] = "done") =>
      \A c1 \in call[q].after :
        /\ \E a \in applied : a[1] = call[q].s /\ a[2] = c1
        /\ Consecutive(rs[call[q].st].log, c1, call[q].tk)
        /\ Consecutive(rs[call[q].st].emits, c1, call[q].tk)

Written(p) ==
  pc[p] = "done" /\ call[p].op \in {"applyCreateOpts", "applyCommit"}

\* Call p takes the handlePinOpts step of its applyWriteOpts.
PinStep(p) == pc[p] = "opts_wait" /\ pc'[p] # "opts_wait"

\* C6, as stated: an applyCreateOpts with opts.pin undefined that has returned
\* left the stream pinned.
C6_PinnedOnCreateDefault ==
  \A p \in Calls :
    (/\ pc[p] = "done" /\ call[p].op = "applyCreateOpts"
     /\ call[p].pin = "undefined") => call[p].pinned

\* C6, amended: an applyCreateOpts with opts.pin undefined that has returned
\* left the stream pinned if the loaded log had exactly one commit, so that
\* the call was a CREATE, or if the stream is indexed.
C6_PinnedOnCreate ==
  \A p \in Calls :
    (/\ pc[p] = "done" /\ call[p].op = "applyCreateOpts"
     /\ call[p].pin = "undefined"
     /\ (call[p].opType = CREATE \/ shouldIndex(rs[call[p].st]))) =>
       (call[p].res = "ok" /\ call[p].pinned)

\* C6, witness: an applyCreateOpts with opts.pin undefined on a stream
\* without a model returned as a CREATE and left the stream pinned.
C6_Witness ==
  \E p \in Calls :
    /\ pc[p] = "done" /\ call[p].op = "applyCreateOpts"
    /\ call[p].pin = "undefined" /\ call[p].opType = CREATE
    /\ ~shouldIndex(rs[call[p].st])
    /\ call[p].pinned

C8_IndexedPinned ==
  \A p \in Calls :
    (Written(p) /\ call[p].res = "ok" /\ shouldIndex(rs[call[p].st])) =>
      call[p].pinned

\* C8, amended: an applyCreateOpts or applyCommit on an indexed stream that
\* has returned left the stream pinned when opts.pin was undefined, or true
\* on a CREATE; and with opts.pin false a CREATE on an indexed stream raises.
C8_IndexedPinnedByDefault ==
  \A p \in Calls :
    (Written(p) /\ shouldIndex(rs[call[p].st])) =>
      /\ (\/ call[p].pin = "undefined"
          \/ (call[p].pin = "true" /\ call[p].opType = CREATE)) =>
            (call[p].res = "ok" /\ call[p].pinned)
      /\ (call[p].pin = "false" /\ call[p].opType = CREATE) =>
            call[p].res = "error"

\* C8, witness: an applyCommit with opts.pin undefined on an indexed stream
\* has returned and left the stream pinned.
C8_Witness ==
  \E p \in Calls :
    /\ pc[p] = "done" /\ call[p].op = "applyCommit"
    /\ call[p].pin = "undefined" /\ call[p].res = "ok"
    /\ shouldIndex(rs[call[p].st])
    /\ call[p].pinned

C10_UnpinForbidsIndexed ==
  [][/\ \A p \in Calls :
          (pc[p] # "rm_wait" /\ pc'[p] = "rm_wait") =>
            ~shouldIndex(rs[call'[p].st])
     /\ errors' # errors =>
          /\ \E p \in Calls : /\ pc'[p] = "done" /\ call'[p].res = "error"
                              /\ shouldIndex(rs[call'[p].st])
          /\ UNCHANGED <<published, synced, store, rs>>
     /\ published' # published =>
          \E p \in Calls : /\ pc[p] # "rm_wait" /\ pc'[p] = "rm_wait"
                           /\ call'[p].pub]_vars

\* C10, witness: unpin with opts.publish on a pinned indexed stream raised;
\* no tip was published and the stream is still pinned.
C10_Witness ==
  \E p \in Calls :
    /\ pc[p] = "done" /\ call[p].op = "unpin"
    /\ call[p].pub /\ call[p].res = "error"
    /\ shouldIndex(rs[call[p].st])
    /\ published = 0
    /\ IsPinned(rs, store, call[p].st)

\* --------------------------------------------------------------- claim C11
\* Call p passes the check of a direct unpin(state$, opts) and goes on to
\* pinStore.rm.
UnpinStep(p) ==
  pc[p] # "rm_wait" /\ pc'[p] = "rm_wait" /\ call'[p].op = "unpin"

\* C11: an unpin(state$, opts) that passes its check publishes the tip
\* exactly once if opts.publish is set and not at all otherwise, and clears
\* the pinned-and-synced mark of the stream; when its pinStore.rm resolves
\* the stream is out of the state store and the running state is unpinned,
\* and nothing more is published.
C11_UnpinPublishesOnce ==
  [][\A p \in Calls :
       /\ UnpinStep(p) =>
            /\ ~shouldIndex(rs[call'[p].st])
            /\ published' = published + (IF call'[p].pub THEN 1 ELSE 0)
            /\ synced' = synced \ {call'[p].s}
       /\ (pc[p] = "rm_wait" /\ pc'[p] # "rm_wait" /\ call[p].op = "unpin") =>
            /\ pc'[p] = "done" /\ call'[p].res = "ok"
            /\ published' = published
            /\ store'[call[p].s] = <<>>
            /\ ~rs'[call[p].st].isPinned]_vars

\* C11, witness: a stream that an applyCreateOpts had left pinned was
\* unpinned with opts.publish: one tip was published, and the stream is out
\* of the state store, unpinned and not marked pinned-and-synced.
C11_Witness ==
  \E p, q \in Calls :
    /\ pc[p] = "done" /\ call[p].op = "unpin"
    /\ call[p].pub /\ call[p].res = "ok"
    /\ published = 1
    /\ store[call[p].s] = <<>> /\ ~rs[call[p].st].isPinned
    /\ call[p].s \notin synced
    /\ pc[q] = "done" /\ call[q].op = "applyCreateOpts"
    /\ call[q].s = call[p].s /\ call[q].pinned

C13_NetworkCopyIsLive ==
  [][\A p \in Calls :
       (/\ pc[p] = "sync_wait" /\ pc'[p] = "load_post"
        /\ call[p].sync = SYNC_ALWAYS
        /\ ~rs'[call'[p].st].complete) =>
          inmemory'.val[call[p].s] = call'[p].st]_vars

\* --------------------------------------------------------------- claim C14
\* C14: when the task of a load has ended, load raises CapabilityExpired if
\* and only if skipCacaoExpirationChecks is not set and the state the task
\* handed back carries an expired capability, whichever tier served the
\* state; otherwise it returns that state.
C14_CacaoDeferral ==
  [][\A p \in Calls :
       (pc[p] = "load_post" /\ pc'[p] # "load_post" /\ call[p].op = "load") =>
          /\ pc'[p] = "done"
          /\ call'[p].st = call[p].st
          /\ call'[p].res =
               IF ~call[p].skip /\ CacaoExpired(rs[call[p].st])
                 THEN "CapabilityExpired" ELSE "ok"]_vars

\* C14, witness: a load with skipCacaoExpirationChecks returned a state with
\* an expired capability, and a later load without the flag that was served
\* the same state from the in-memory cache raised CapabilityExpired.
C14_Witness ==
  \E p, q \in Calls :
    /\ pc[q] = "done" /\ call[q].op = "load" /\ call[q].skip
    /\ call[q].res = "ok" /\ CacaoExpired(rs[call[q].st])
    /\ pc[p] = "done" /\ call[p].op = "load" /\ ~call[p].skip
    /\ call[p].tier = "memory" /\ call[p].st = call[q].st
    /\ call[p].res = "CapabilityExpired"

\* A call is issued by p in this step.
Begins(p) ==
  /\ pc[p] \in {"idle", "done"}
  /\ nOps' = nOps + 1
  /\ (pc'[p] # pc[p] \/ call'[p] # call[p])

\* The call that p issues in this step raises QueueClosed at once.
RaisesQueueClosed(p) == pc'[p] = "done" /\ call'[p].res = QueueClosed

RaisesNotFound(p) ==
  /\ call[p].op = "load"
  /\ call[p].res # StreamNotFound
  /\ call'[p].res = StreamNotFound

Constructed(p) == Len(rs') = Len(rs) + 1 /\ call'[p].st = Len(rs')

\* C17: _loadGenesis (the PREFER_CACHE, SYNC_ON_ERROR and NEVER_SYNC modes of
\* load) returns the cached running state on a memory hit without reading the
\* store; reads the store on a memory miss only, and on a store hit
\* constructs a running state with isPinned = TRUE from the stored state, adds
\* it to the cache and never fetches the genesis commit; and fetches the
\* genesis commit only when both missed, the running state of a network load
\* having isPinned = FALSE.
C17_TieredLoad ==
  [][\A p \in Calls :
       call[p].sync \in SyncOptions \ {SYNC_ALWAYS} =>
         /\ (pc[p] = "lq_wait" /\ pc'[p] # "lq_wait") =>
              IF CacheGet(inmemory, call[p].s) # 0
                THEN /\ pc'[p] = "load_post"
                     /\ call'[p].st = CacheGet(inmemory, call[p].s)
                     /\ call'[p].tier = "memory"
                     /\ rs' = rs
                ELSE pc'[p] = "store_wait" /\ call'[p].tier = "none"
         /\ (pc[p] = "store_wait" /\ pc'[p] # "store_wait") =>
              IF store[call[p].s] # <<>>
                THEN /\ pc'[p] \in {"load_post", "sync_wait"}
                     /\ call'[p].tier = "store"
                     /\ Constructed(p)
                     /\ rs'[call'[p].st].isPinned
                     /\ rs'[call'[p].st].log = store[call[p].s]
                     /\ CacheGet(inmemory', call[p].s) = call'[p].st
                ELSE pc'[p] = "net_wait" /\ call'[p].tier = "none" /\ rs' = rs
         /\ (pc[p] = "net_wait" /\ pc'[p] # "net_wait"
             /\ net[call[p].s] # <<>>) =>
              /\ call'[p].tier = "network"
              /\ Constructed(p)
              /\ ~rs'[call'[p].st].isPinned
              /\ CacheGet(inmemory', call[p].s) = call'[p].st
         /\ (call[p].tier # "none" /\ pc[p] # "done") =>
              call'[p].tier = call[p].tier]_vars

\* A pinned stream that was evicted from memory was loaded again from the
\* state store.
C17_Witness ==
  \E p \in Calls :
    /\ call[p].op = "load" /\ pc[p] = "done" /\ call[p].res = "ok"
    /\ call[p].sync # SYNC_ALWAYS
    /\ call[p].tier = "store"
    /\ rs[call[p].st].isPinned
    /\ \E r \in DOMAIN rs :
         r < call[p].st /\ rs[r].id = call[p].s /\ rs[r].complete

\* Call p calls stateManager.sync in this step.
CallsSync(p) == pc[p] # "sync_wait" /\ pc'[p] = "sync_wait"

\* C18: in the PREFER_CACHE and SYNC_ON_ERROR modes load calls
\* stateManager.sync when _loadGenesis returns a state it does not report as
\* synced (a network load, or a store load of a stream not marked synced), and
\* returns without a sync when it reports it synced (a memory hit, or a store
\* load of a stream marked synced); the sync is called once, after it the
\* task returns; in the NEVER_SYNC mode sync is never called.
C18_SyncOnceIfNotSynced ==
  [][\A p \in Calls :
       call[p].sync \in SyncOptions \ {SYNC_ALWAYS} =>
         /\ (pc[p] = "lq_wait" /\ pc'[p] # "lq_wait"
             /\ CacheGet(inmemory, call[p].s) # 0) =>
              pc'[p] = "load_post" /\ call'[p].syn
         /\ (pc[p] = "store_wait" /\ pc'[p] # "store_wait"
             /\ store[call[p].s] # <<>>) =>
              IF call[p].sync = NEVER_SYNC \/ wasPinnedStreamSynced(call[p].s)
                THEN /\ pc'[p] = "load_post"
                     /\ call'[p].syn = wasPinnedStreamSynced(call[p].s)
                ELSE CallsSync(p)
         /\ (pc[p] = "net_wait" /\ pc'[p] # "net_wait"
             /\ net[call[p].s] # <<>>) =>
              IF call[p].sync = NEVER_SYNC
                THEN pc'[p] = "load_post" /\ ~call'[p].syn
                ELSE CallsSync(p)
         /\ CallsSync(p) =>
              /\ call[p].sync # NEVER_SYNC
              /\ pc[p] \in {"store_wait", "net_wait"}
         /\ (pc[p] = "sync_wait" /\ pc'[p] # "sync_wait") =>
              pc'[p] = "load_post" /\ call'[p].syn
         /\ (pc[p] = "load_post" /\ pc'[p] # "load_post") =>
              pc'[p] = "done"]_vars

\* A PREFER_CACHE load returned from the store, without a sync, a stream that
\* an earlier load had synced and that was evicted in between.
C18_Witness ==
  \E p \in Calls :
    /\ call[p].op = "load" /\ pc[p] = "load_post"
    /\ call[p].sync = PREFER_CACHE
    /\ call[p].tier = "store"
    /\ call[p].s \in synced
    /\ \A q \in Calls \ {p} : pc[q] = "done" /\ call[q].s # call[p].s
    /\ \E r \in DOMAIN rs :
         r < call[p].st /\ rs[r].id = call[p].s /\ rs[r].complete

\* The loadingQ task of p returns in this step.
TaskReturns(p) == pc[p] # "load_post" /\ pc'[p] = "load_post"

\* C19: when the task of a load that found its stream in the state store
\* returns, and the anchor-request store holds a request for the stream, the
\* anchor service was asked to confirm its cid on the running state that load
\* returns; and a confirmation is requested only on a running state built
\* from the state store.
C19_AnchorRehydrated ==
  [][/\ \A p \in Calls :
          (TaskReturns(p) /\ (call'[p].tier = "store" \/ call'[p].stored)
           /\ anchorRequestStore[call[p].s] # 0) =>
             rs'[call'[p].st].anchor = anchorRequestStore[call[p].s]
     /\ \A r \in DOMAIN rs' :
          (r \notin DOMAIN rs /\ rs'[r].anchor # 0) =>
             store[rs'[r].id] # <<>>]_vars

\* The order in which close() reaches its collaborators.
CloseOrder == <<"loadingQ", "executionQ", "inmemory", "pinStore", "index">>

\* The running states in the cache, endured or not.
Cached == {inmemory.val[k] : k \in Streams} \ {0}

\* close() reaches its collaborators in CloseOrder: executionQ once loadingQ
\* is drained, the cache once executionQ is drained; the cache teardown
\* deletes every entry and completes its running state, and a completed
\* running state stays complete.
TeardownInOrder ==
  /\ closed' # closed =>
       /\ Len(closed) < Len(CloseOrder)
       /\ closed' = Append(closed, CloseOrder[Len(closed) + 1])
  /\ (~Closed("executionQ") /\ "executionQ" \in Range(closed')) =>
       \A s \in Streams : loadingQ[s] = <<>>
  /\ (~Closed("inmemory") /\ "inmemory" \in Range(closed')) =>
       /\ \A s \in Streams : loadingQ[s] = <<>> /\ executionQ[s] = <<>>
       /\ inmemory' = EmptyCache
       /\ \A r \in Cached : rs'[r].complete
  /\ \A r \in DOMAIN rs : rs[r].complete => rs'[r].complete

\* C20: close() closes loadingQ, then executionQ, then deletes every cache
\* entry, endured or not, and completes its running state, then closes the
\* pin store and then the indexing API; when close() returns the in-memory
\* cache is empty.
C20_CloseTeardown ==
  [][/\ TeardownInOrder
     /\ \A p \in Calls :
          (pc[p] = "close_idx" /\ pc'[p] = "done") => inmemory' = EmptyCache]_vars

\* C21: loadAtCommit loads the base stream with the capability checks
\* skipped whatever the caller passes, so the load never raises
\* CapabilityExpired for the base state; once atCommit has produced the
\* snapshot, loadAtCommit raises CapabilityExpired exactly when the snapshot
\* holds a commit whose capability has expired.
C21_CheckOnSnapshot ==
  [][\A p \in Calls :
       /\ (call[p].op = "loadAtCommit" /\ pc[p] = "load_post"
           /\ pc'[p] # "load_post") =>
            pc'[p] = "at_wait" /\ call'[p].res = "none"
       /\ (call[p].op = "loadAtCommit" /\ call'[p].res = "CapabilityExpired"
           /\ call[p].res # "CapabilityExpired") => pc[p] = "at_wait"
       /\ (pc[p] = "at_wait" /\ pc'[p] # "at_wait"
           /\ InLog(rs[call[p].st].log, call[p].tk)) =>
            /\ pc'[p] = "done"
            /\ call'[p].res =
                 IF ExpiredCommit \in
                      Range(atCommit(rs[call[p].st].log, call[p].tk))
                   THEN "CapabilityExpired" ELSE "ok"]_vars

\* loadAtCommit returned the genesis snapshot of a stream whose current state
\* holds a commit with an expired capability.
C21_Witness ==
  \E p \in Calls :
    /\ call[p].op = "loadAtCommit" /\ pc[p] = "done" /\ call[p].res = "ok"
    /\ call[p].tk = Genesis
    /\ CacaoExpired(rs[call[p].st])

\* Call p holds the executionQ slot of its stream: its task is running.
HoldsExecutionQ(p) ==
  /\ call[p].s \in Streams
  /\ p \in Range(executionQ[call[p].s])
  /\ pc[p] # "xq_wait"

\* Call p waits for the loadingQ slot of its stream.
WaitsLoadingQ(p) ==
  /\ call[p].s \in Streams
  /\ p \in Range(loadingQ[call[p].s])
  /\ pc[p] = "lq_wait"

\* C22, as stated: no call waits for the loadingQ slot of a stream while it
\* holds the executionQ slot of that stream.
C22_LoadingBeforeExecution ==
  \A p \in Calls : ~(HoldsExecutionQ(p) /\ WaitsLoadingQ(p))

\* The lock order of the code: a call that is in a loadingQ lane does not
\* wait for an executionQ slot, and an applyCommit is in a loadingQ lane only
\* while it holds the executionQ slot of the stream.
ExecutionBeforeLoading ==
  \A p \in Calls :
    /\ pc[p] = "xq_wait" => \A s \in Streams : p \notin Range(loadingQ[s])
    /\ (call[p].op = "applyCommit" /\ WaitsLoadingQ(p)) => HoldsExecutionQ(p)

\* Every call has returned or raised.
AllDone == \A p \in Calls : pc[p] \in {"idle", "done"}

\* C22: the queues are taken in the order executionQ, then loadingQ (the
\* executionQ task of applyCommit calls load), never the other way round, so
\* with any concurrency limit from 1 up every finite set of load, applyCommit
\* and applyCreateOpts calls eventually completes.
C22_NoDeadlock == []ExecutionBeforeLoading /\ <>[]AllDone

\* With a concurrency limit of 1 an applyCommit that holds the executionQ
\* slot of its stream waits in the loadingQ lane behind another call.
C22_Witness ==
  \E p, q \in Calls :
    /\ p # q
    /\ queueLimit = 1
    /\ call[p].op = "applyCommit"
    /\ HoldsExecutionQ(p) /\ WaitsLoadingQ(p)
    /\ Head(loadingQ[call[p].s]) = q

C24_MarkedOnlyIfSynced == synced \subseteq streamSync

\* C25: when an unpin of a stream completes, the stream is not marked
\* pinned-and-synced.
C25_UnpinnedNotSynced ==
  [][\A p \in Calls :
       (pc[p] = "rm_wait" /\ pc'[p] = "done" /\ call[p].op = "unpin") =>
          ~wasPinnedStreamSynced(call[p].s)']_vars

\* C26: while the Repository is open, no running state in the in-memory cache
\* is complete.
C26_NoCompletedInCache ==
  closed = <<>> => \A r \in Cached : ~rs[r].complete

\* C27: once a close() has returned, no step adds a running state to the
\* in-memory cache or endures one.
C27_CacheStaysEmpty ==
  [][Closed("index") =>
       \A k \in Streams :
         /\ inmemory'.val[k] # 0 => inmemory'.val[k] = inmemory.val[k]
         /\ inmemory'.ref[k] <= inmemory.ref[k]]_vars

====
